---- MODULE Spec2Model ----
(***************************************************************************)
(* Model of the multi-sensor sigma-point measurement update                *)
(* (MultiSensorSigmaPointUpdatePolicy::operator()) and of the factorized   *)
(* IID observation model adapter of the FL filtering library.              *)
(*                                                                         *)
(* Scalars are exact rationals extended with the IEEE-754 non-finite       *)
(* values (+inf, -inf, NaN) that a division by zero produces; rounding and *)
(* signed zeros are not modelled.  Vectors and matrices are sequences of   *)
(* rows of such scalars.                                                   *)
(***************************************************************************)
EXTENDS Integers, Sequences, FiniteSets, TLC

(***************************************************************************)
(* Bounds of the model.                                                    *)
(***************************************************************************)
MaxSensors == 2

(***************************************************************************)
(* Scalar arithmetic: a scalar is [n |-> numerator, d |-> denominator],    *)
(* in lowest terms with d > 0; d = 0 encodes +inf (n = 1), -inf (n = -1)   *)
(* and NaN (n = 0).                                                        *)
(***************************************************************************)
Abs(k) == IF k < 0 THEN -k ELSE k

Sign(k) == IF k < 0 THEN -1 ELSE IF k = 0 THEN 0 ELSE 1

RECURSIVE GCD(_, _)
GCD(a, b) == IF b = 0 THEN a ELSE GCD(b, a % b)

Norm(n, d) ==
    IF d = 0 THEN [n |-> Sign(n), d |-> 0]
    ELSE LET g == GCD(Abs(n), Abs(d))
             s == Sign(d)
         IN  [n |-> s * (n \div g), d |-> s * (d \div g)]

R(k) == [n |-> k, d |-> 1]

Zero == R(0)

One == R(1)

NaN == [n |-> 0, d |-> 0]

IsFinite(a) == a.d # 0

RNeg(a) == [n |-> -a.n, d |-> a.d]

\* Sums and products cancel common factors first, to keep the integers small.
RAdd(a, b) ==
    IF a.d = 0 /\ b.d = 0
    THEN (IF a.n = b.n THEN a ELSE NaN)
    ELSE IF a.d = 0 THEN a
    ELSE IF b.d = 0 THEN b
    ELSE IF a.d = 1 /\ b.d = 1 THEN [n |-> a.n + b.n, d |-> 1]
    ELSE LET g == GCD(a.d, b.d)
         IN  Norm(a.n * (b.d \div g) + b.n * (a.d \div g), (a.d \div g) * b.d)

RSub(a, b) == RAdd(a, RNeg(b))

RMul(a, b) ==
    IF a.d = 0 \/ b.d = 0 THEN Norm(a.n * b.n, 0)
    ELSE IF a.d = 1 /\ b.d = 1 THEN [n |-> a.n * b.n, d |-> 1]
    ELSE LET g1 == GCD(Abs(a.n), b.d)
             g2 == GCD(Abs(b.n), a.d)
             h1 == IF g1 = 0 THEN 1 ELSE g1
             h2 == IF g2 = 0 THEN 1 ELSE g2
         IN  Norm((a.n \div h1) * (b.n \div h2), (a.d \div h2) * (b.d \div h1))

RInv(a) == Norm(a.d, a.n)

RLe(a, b) == IsFinite(a) /\ IsFinite(b) /\ RSub(a, b).n <= 0

RLt(a, b) == IsFinite(a) /\ IsFinite(b) /\ RSub(a, b).n < 0

(***************************************************************************)
(* Dense linear algebra on sequences of rows.                              *)
(***************************************************************************)
\* Sequences and matrices are built element by element, as explicit tuples.
RECURSIVE SeqOf(_, _)
SeqOf(F(_), n) == IF n = 0 THEN <<>> ELSE Append(SeqOf(F, n - 1), F(n))

Mat(E(_, _), r, c) == SeqOf(LAMBDA i : SeqOf(LAMBDA j : E(i, j), c), r)

Rows(M) == Len(M)

Cols(M) == IF Len(M) = 0 THEN 0 ELSE Len(M[1])

\* Row u times column j of B, summed over the first k entries.
RECURSIVE DotUpTo(_, _, _, _)
DotUpTo(u, B, j, k) ==
    IF k = 0 THEN Zero ELSE RAdd(DotUpTo(u, B, j, k - 1), RMul(u[k], B[k][j]))

Column(M, j) == SeqOf(LAMBDA i : M[i][j], Rows(M))

Transpose(M) == Mat(LAMBDA j, i : M[i][j], Cols(M), Rows(M))

MatMul(A, B) ==
    Mat(LAMBDA i, j : DotUpTo(A[i], B, j, Rows(B)), Rows(A), Cols(B))

MatAdd(A, B) ==
    Mat(LAMBDA i, j : RAdd(A[i][j], B[i][j]), Rows(A), Cols(A))

MatSub(A, B) ==
    Mat(LAMBDA i, j : RSub(A[i][j], B[i][j]), Rows(A), Cols(A))

ZeroMat(r, c) == Mat(LAMBDA i, j : Zero, r, c)

Diag(w) == Mat(LAMBDA i, j : IF i = j THEN w[i] ELSE Zero, Len(w), Len(w))

Det(M) ==
    IF Rows(M) = 1 THEN M[1][1]
    ELSE RSub(RMul(M[1][1], M[2][2]), RMul(M[1][2], M[2][1]))

\* Eigen's inverse of a 1x1 or 2x2 matrix: the cofactors times 1/determinant.
\* Nothing is checked: a zero determinant gives non-finite entries.
Inverse(M) ==
    LET invdet == RInv(Det(M))
    IN  IF Rows(M) = 1 THEN <<  <<invdet>>  >>
        ELSE << <<RMul(M[2][2], invdet), RMul(RNeg(M[1][2]), invdet)>>,
                <<RMul(RNeg(M[2][1]), invdet), RMul(M[1][1], invdet)>> >>

MatFinite(M) == \A i \in 1..Rows(M) : \A j \in 1..Cols(M) : IsFinite(M[i][j])

IsSymmetric(M) == MatFinite(M) /\ M = Transpose(M)

\* Positive definite / semi-definite, for finite symmetric matrices of size <= 2.
IsPosDef(M) ==
    /\ IsSymmetric(M)
    /\ RLt(Zero, M[1][1])
    /\ RLt(Zero, Det(M))

IsPosSemiDef(M) ==
    /\ IsSymmetric(M)
    /\ \A i \in 1..Rows(M) : RLe(Zero, M[i][i])
    /\ RLe(Zero, Det(M))

\* Loewner order: A <= B iff B - A is positive semi-definite.
LoewnerLe(A, B) == MatFinite(A) /\ MatFinite(B) /\ IsPosSemiDef(MatSub(B, A))

(***************************************************************************)
(* Gaussian belief: mean (dx x 1) and covariance (dx x dx).                *)
(***************************************************************************)
Gaussian(m, c) == [mean |-> m, covariance |-> c]

ColVec(v) == SeqOf(LAMBDA i : <<v[i]>>, Len(v))

Identity(n) == Diag(SeqOf(LAMBDA i : One, n))

\* Exact square root of a scalar that is a square of a rational.
ISqrt(k) == CHOOSE s \in 0..k : s * s = k

RSqrt(a) == Norm(ISqrt(a.n), ISqrt(a.d))

\* Gaussian::square_root(): the lower Cholesky factor of the covariance.
SquareRoot(c) ==
    IF Rows(c) = 1 THEN <<  <<RSqrt(c[1][1])>>  >>
    ELSE LET l11 == RSqrt(c[1][1])
             l21 == RMul(c[2][1], RInv(l11))
             l22 == RSqrt(RSub(c[2][2], RMul(l21, l21)))
         IN  << <<l11, Zero>>, <<l21, l22>> >>

(***************************************************************************)
(* PointSet: a D x K matrix of points (one per column) and the mean and    *)
(* covariance weight of each point.                                        *)
(***************************************************************************)
PointSet(pts, wm, wc) == [points |-> pts, wm |-> wm, wc |-> wc]

\* PointSet::mean(): the weighted mean of the points, a D x 1 vector.
PointMean(ps) == MatMul(ps.points, ColVec(ps.wm))

\* PointSet::center(): subtracts the weighted mean from every stored point
\* (in place) and returns the mean.  CenterPoints is the point set it leaves.
CenterPoints(ps) ==
    LET m == PointMean(ps)
    IN  [ps EXCEPT !.points =
            Mat(LAMBDA i, j : RSub(ps.points[i][j], m[i][1]),
                Rows(ps.points), Cols(ps.points))]

(***************************************************************************)
(* Sigma-point quadrature: the unscented rule with spread gamma (a scalar), *)
(* centre weight 1 - n/gamma^2 and outer weights 1/(2*gamma^2).            *)
(***************************************************************************)
number_of_points(n) == 2 * n + 1

\* Weight of the centre point and of each of the 2n outer points.
CentreWeight(gamma, n) == RSub(One, RMul(R(n), RInv(RMul(gamma, gamma))))

OuterWeight(gamma) == RInv(RMul(R(2), RMul(gamma, gamma)))

Weights(gamma, n) ==
    SeqOf(LAMBDA j : IF j = 1 THEN CentreWeight(gamma, n) ELSE OuterWeight(gamma),
          number_of_points(n))

\* The 2n+1 sigma points of the joint Gaussian with mean m (n x 1) and
\* square root S (n x n): m, m + gamma*S[:,j], m - gamma*S[:,j].
SigmaPoints(gamma, m, S) ==
    LET n == Rows(m)
    IN  Mat(LAMBDA i, j :
                IF j = 1 THEN m[i][1]
                ELSE IF j <= n + 1
                     THEN RAdd(m[i][1], RMul(gamma, S[i][j - 1]))
                     ELSE RSub(m[i][1], RMul(gamma, S[i][j - 1 - n])),
                n, number_of_points(n))

\* Mean and square root of the joint Gaussian of two independent Gaussians.
JointMean(a, b) == a.mean \o b.mean

JointRoot(a, b) ==
    LET Sa == SquareRoot(a.covariance)
        Sb == SquareRoot(b.covariance)
        da == Rows(Sa)
        db == Rows(Sb)
    IN  Mat(LAMBDA i, j :
                IF i <= da /\ j <= da THEN Sa[i][j]
                ELSE IF i > da /\ j > da THEN Sb[i - da][j - da]
                ELSE Zero,
                da + db, da + db)

MiddleRows(M, start, n) == SeqOf(LAMBDA k : M[start + k], n)

\* quadrature.transform_to_points(prior, noise, p_X, p_Q): the point sets
\* written to p_X and p_Q.
TransformX(q, prior, noise) ==
    LET n == Rows(prior.mean) + Rows(noise.mean)
        P == SigmaPoints(q.gamma, JointMean(prior, noise), JointRoot(prior, noise))
    IN  PointSet(MiddleRows(P, 0, Rows(prior.mean)),
                 Weights(q.gamma, n), Weights(q.gamma, n))

TransformQ(q, prior, noise) ==
    LET n == Rows(prior.mean) + Rows(noise.mean)
        P == SigmaPoints(q.gamma, JointMean(prior, noise), JointRoot(prior, noise))
    IN  PointSet(MiddleRows(P, Rows(prior.mean), Rows(noise.mean)),
                 Weights(q.gamma, n), Weights(q.gamma, n))

(***************************************************************************)
(* Local observation model of one sensor.  The model holds the id of the   *)
(* sensor it currently stands for; observation(x, w) is                    *)
(*    H[id] * x + curv * x_1^2 + r * w.                                    *)
(***************************************************************************)
Observation(model, x, w) ==
    LET Hx == MatMul(<<model.H[model.id + 1]>>, x)[1][1]
        x1 == x[1][1]
    IN  <<  <<RAdd(RAdd(Hx, RMul(R(model.curv), RMul(x1, x1))),
                   RMul(R(model.r), w[1][1]))>>  >>

\* Mutant of SetId: the id is not written for the first sensor.
SetIdSkippingFirst(model, i) == IF i = 0 THEN model ELSE [model EXCEPT !.id = i]

\* model.id(i)
SetId(model, i) == [model EXCEPT !.id = i]

\* quadrature.propergate_points(h, p_X, p_Q, p_Y): the point set written to
\* p_Y, h applied to each pair of columns; the weights are those of p_X.
PropagatePoints(model, pX, pQ) ==
    PointSet(
        <<  SeqOf(LAMBDA j :
                    Observation(model,
                                ColVec(Column(pX.points, j)),
                                ColVec(Column(pQ.points, j)))[1][1],
                  Cols(pX.points))  >>,
        pX.wm, pX.wc)

(***************************************************************************)
(* Input domains of the model.                                             *)
(***************************************************************************)
StateDims == {1, 2}

\* Spreads of the quadrature rule: 1/2 gives a negative centre weight.
Gammas == { [n |-> 1, d |-> 2], [n |-> 2, d |-> 1] }

Curvs == {0, 1}

NoiseScales == {0, 1}

MeasValues == {0, 1}

\* Observation rows H of one sensor, for a state of dimension dx.
GainRows(dx) ==
    IF dx = 1 THEN { <<R(1)>>, <<R(2)>> }
    ELSE { <<R(1), R(0)>>, <<R(1), R(1)>> }

\* Priors: a mean and the lower Cholesky factor L of the covariance L * L^T
\* (positive definite).
PriorMeans(dx) ==
    IF dx = 1 THEN { <<  <<R(0)>>  >>, <<  <<R(1)>>  >> }
    ELSE { << <<R(1)>>, <<R(0)>> >> }

PriorRoots(dx) ==
    IF dx = 1 THEN { <<  <<R(1)>>  >>, <<  <<R(2)>>  >> }
    ELSE { << <<R(1), R(0)>>, <<R(0), R(1)>> >>,
           << <<R(1), R(0)>>, <<R(1), R(1)>> >> }

Priors(dx) ==
    { Gaussian(m, MatMul(L, Transpose(L))) : m \in PriorMeans(dx), L \in PriorRoots(dx) }

\* Joint measurements of N sensors with a scalar observation each.
Measurements(N) ==
    { ColVec(SeqOf(LAMBDA k : R(f[k]), N)) : f \in [1..N -> MeasValues] }

(***************************************************************************)
(* State.                                                                  *)
(***************************************************************************)
VARIABLES
    obsrv_function,   \* the joint model: [count, model: [id, H, curv, r]]
    quadrature,       \* the quadrature rule: [gamma]
    p_X, p_Q, p_Y,    \* members of the policy: the point sets
    noise_distr_,     \* member of the policy: the local noise Gaussian
    prior_belief,     \* argument: the prior
    y,                \* argument: the joint measurement (N*dy x 1)
    posterior_belief, \* argument: the belief written by the update
    mu_x, c_xx_inv,   \* locals of operator()
    C, D,             \* locals: information matrix and vector
    sensors, i,       \* locals: loop bound and loop counter
    pc,               \* position in operator()
    visited,          \* sensors whose loop iteration has run in this call
    tpc, tmu,         \* concurrent sensor tasks: position and local mu_y
    obsrv_at_call,    \* history: obsrv_function when the call started
    belief_at_call,   \* history: posterior_belief when the call started
    steps,            \* history: how often each step of the call has run
    factor_obsrv_model_, \* adapter member: the local model [H, G]
    factors_,         \* adapter member: the sensor count, a size_t
    factors_arg,      \* history: the int the adapter was constructed with
    apc,              \* adapter: position in predict_observation
    a_state, a_noise, \* arguments of predict_observation
    a_y, a_i,         \* locals of predict_observation: y and the loop counter
    a_writes          \* history: how often each row of y was assigned

members == <<p_X, p_Q, p_Y, noise_distr_>>

args == <<prior_belief, y, posterior_belief>>

locals == <<mu_x, c_xx_inv, C, D, sensors, i>>

tasks == <<tpc, tmu>>

history == <<obsrv_at_call, belief_at_call, steps>>

policy == <<obsrv_function, quadrature, members, args, locals, pc, visited,
            tasks, history>>

adapter == <<factor_obsrv_model_, factors_, factors_arg, apc, a_state, a_noise,
             a_y, a_i, a_writes>>

vars == <<policy, adapter>>

StateDim == Len(obsrv_function.model.H[1])

None == <<>>

NoBelief == Gaussian(None, None)

\* A default-constructed point set of K points of dimension dim.
EmptyPointSet(dim, K) ==
    PointSet(ZeroMat(dim, K), SeqOf(LAMBDA j : Zero, K), SeqOf(LAMBDA j : Zero, K))

Models(dx, N) ==
    { [id |-> 0, H |-> h, curv |-> c, r |-> r] :
        h \in [1..N -> GainRows(dx)], c \in Curvs, r \in NoiseScales }

\* No step of a call on N sensors has run: the transform, the propagation
\* and the accumulation of each sensor, the rows of y each sensor has read,
\* and the inversion of C.
NoSteps(N) ==
    [transform  |-> 0,
     propagate  |-> [k \in 0..(N - 1) |-> 0],
     accumulate |-> [k \in 0..(N - 1) |-> 0],
     rows       |-> [k \in 0..(N - 1) |-> {}],
     inverted   |-> 0]

\* No adapter has been constructed yet.
AdapterInit ==
    /\ factor_obsrv_model_ = None
    /\ factors_ = None
    /\ factors_arg = 0
    /\ apc = "unconstructed"
    /\ a_state = None /\ a_noise = None /\ a_y = None
    /\ a_i = 0
    /\ a_writes = None

Init ==
    /\ AdapterInit
    /\ \E dx \in StateDims, N \in 1..MaxSensors :
         /\ \E m \in Models(dx, N) : obsrv_function = [count |-> N, model |-> m]
         /\ p_X = EmptyPointSet(dx, number_of_points(dx + 1))
         /\ p_Q = EmptyPointSet(1, number_of_points(dx + 1))
         /\ p_Y = EmptyPointSet(1, number_of_points(dx + 1))
    /\ \E g \in Gammas : quadrature = [gamma |-> g]
    /\ noise_distr_ = Gaussian(<<  <<Zero>>  >>, Identity(1))
    /\ prior_belief = NoBelief
    /\ y = None
    /\ posterior_belief = NoBelief
    /\ mu_x = None /\ c_xx_inv = None /\ C = None /\ D = None
    /\ sensors = 0 /\ i = 0
    /\ pc = "idle"
    /\ visited = {}
    /\ tpc = None /\ tmu = None
    /\ obsrv_at_call = obsrv_function
    /\ steps = NoSteps(obsrv_function.count)
    /\ belief_at_call = NoBelief

(***************************************************************************)
(* operator()(obsrv_function, quadrature, prior_belief, y, posterior_belief)*)
(***************************************************************************)
\* cov(a, b) = a * W * b^T, W the covariance weights of the member p_X.
cov(pX, a, b) ==
    MatMul(Mat(LAMBDA r, j : RMul(a[r][j], pX.wc[j]), Rows(a), Cols(a)), Transpose(b))

\* The caller enters the update with a prior, a joint measurement and the
\* belief to write (here the prior itself, updated in place).
Call ==
    /\ pc = "idle"
    /\ \E b \in Priors(StateDim), m \in Measurements(obsrv_function.count) :
         /\ prior_belief' = b
         /\ y' = m
         /\ posterior_belief' = b
         /\ belief_at_call' = b
    /\ obsrv_at_call' = obsrv_function
    /\ steps' = NoSteps(obsrv_function.count)
    /\ pc' = "transform"
    /\ UNCHANGED adapter
    /\ UNCHANGED <<obsrv_function, quadrature, members, locals, visited, tasks>>

\* line 123
TransformToPoints ==
    /\ pc = "transform"
    /\ p_X' = TransformX(quadrature, prior_belief, noise_distr_)
    /\ p_Q' = TransformQ(quadrature, prior_belief, noise_distr_)
    /\ steps' = [steps EXCEPT !.transform = @ + 1]
    /\ pc' = "center"
    /\ UNCHANGED adapter
    /\ UNCHANGED <<obsrv_function, quadrature, p_Y, noise_distr_, args, locals,
                   visited, tasks, obsrv_at_call, belief_at_call>>

\* Mutant of InitInformation: C starts from zero, like D.
InitInformationZero(cxxinv) == ZeroMat(Rows(cxxinv), Cols(cxxinv))

\* line 136: the information matrix starts from the prior information.
InitInformation(cxxinv) == cxxinv

\* lines 131-140
CenterState ==
    /\ pc = "center"
    /\ mu_x' = PointMean(p_X)
    /\ p_X' = CenterPoints(p_X)
    /\ c_xx_inv' = Inverse(cov(p_X', p_X'.points, p_X'.points))
    /\ C' = InitInformation(c_xx_inv')
    /\ D' = ZeroMat(Rows(mu_x'), 1)
    /\ sensors' = obsrv_function.count
    /\ i' = 0
    /\ visited' = {}
    /\ pc' = "loop"
    /\ UNCHANGED adapter
    /\ UNCHANGED <<obsrv_function, quadrature, p_Q, p_Y, noise_distr_, args,
                   tasks, history>>

\* lines 146-153 for the centred observation points pY: the regression
\* coefficient A_i, the innovation covariance and T.
RegressionA(pX, pY, cxxinv) ==
    MatMul(Transpose(cov(pX, pX.points, pY.points)), cxxinv)

InnovationCov(pX, pY, cxxinv) ==
    LET c_yy == cov(pX, pY.points, pY.points)
        c_xy == cov(pX, pX.points, pY.points)
        c_yx == Transpose(c_xy)
    IN  MatSub(c_yy, MatMul(MatMul(c_yx, cxxinv), c_xy))

GainT(A_i, c_yy_given_x) == MatMul(Transpose(A_i), Inverse(c_yy_given_x))

\* line 156: the slice of the joint measurement that belongs to sensor k,
\* and the (1-based) rows of the joint measurement it is made of.
MeasurementSlice(meas, k, dy) == MiddleRows(meas, k * dy, dy)

SliceRows(k, dy) == (k * dy + 1)..(k * dy + dy)

\* Mutants of the accumulation: C -= T * A_i, and D = ... in place of D += ...
AccumulateCSubtracting(Cacc, T, A) == MatSub(Cacc, MatMul(T, A))

AccumulateDOverwriting(Dacc, T, yk, mu_y) == MatMul(T, MatSub(yk, mu_y))

\* lines 155-156: the accumulators after adding a sensor's contribution.
AccumulateC(Cacc, T, A) == MatAdd(Cacc, MatMul(T, A))

AccumulateD(Dacc, T, yk, mu_y) == MatAdd(Dacc, MatMul(T, MatSub(yk, mu_y)))

\* lines 143-156: the body of the sensor loop, run for sensor k.
SensorIteration(k) ==
    LET model == SetId(obsrv_function.model, k)
        raw   == PropagatePoints(model, p_X, p_Q)
        mu_y  == PointMean(raw)
        pY    == CenterPoints(raw)
        A_i   == RegressionA(p_X, pY, c_xx_inv)
        T     == GainT(A_i, InnovationCov(p_X, pY, c_xx_inv))
    IN  /\ obsrv_function' = [obsrv_function EXCEPT !.model = model]
        /\ p_Y' = pY
        /\ C' = AccumulateC(C, T, A_i)
        /\ D' = AccumulateD(D, T, MeasurementSlice(y, k, Rows(mu_y)), mu_y)
        /\ visited' = visited \cup {k}
        /\ steps' = [steps EXCEPT !.propagate[k] = @ + 1,
                                  !.accumulate[k] = @ + 1,
                                  !.rows[k] = @ \cup SliceRows(k, Rows(mu_y))]

\* lines 141-157: one iteration of the sensor loop, for (i = 0; i < sensors; ++i).
SensorStep ==
    /\ pc = "loop"
    /\ i < sensors
    /\ SensorIteration(i)
    /\ i' = i + 1
    /\ UNCHANGED adapter
    /\ UNCHANGED <<quadrature, p_X, p_Q, noise_distr_, args, mu_x, c_xx_inv,
                   sensors, pc, tasks, obsrv_at_call, belief_at_call>>

\* lines 159-160
PosteriorCovariance(Cacc) == Inverse(Cacc)

\* Mutant of PosteriorMean: the prior mean mu_x is left out.
PosteriorMeanWithoutPrior(mx, cv, Dacc) == MatMul(cv, Dacc)

PosteriorMean(mx, cv, Dacc) == MatAdd(mx, MatMul(cv, Dacc))

WritePosterior ==
    /\ pc = "loop"
    /\ ~(i < sensors)
    /\ LET cv == PosteriorCovariance(C)
       IN  posterior_belief' = Gaussian(PosteriorMean(mu_x, cv, D), cv)
    /\ steps' = [steps EXCEPT !.inverted = @ + 1]
    /\ pc' = "done"
    /\ UNCHANGED adapter
    /\ UNCHANGED <<obsrv_function, quadrature, members, prior_belief, y, locals,
                   visited, tasks, obsrv_at_call, belief_at_call>>

\* line 161: the call returns; arguments and locals go out of scope.
Return ==
    /\ pc = "done"
    /\ pc' = "idle"
    /\ prior_belief' = NoBelief
    /\ y' = None
    /\ posterior_belief' = NoBelief
    /\ mu_x' = None /\ c_xx_inv' = None /\ C' = None /\ D' = None
    /\ sensors' = 0 /\ i' = 0
    /\ visited' = {}
    /\ UNCHANGED adapter
    /\ UNCHANGED <<obsrv_function, quadrature, members, tasks, history>>

Next ==
    \/ Call
    \/ TransformToPoints
    \/ CenterState
    \/ SensorStep
    \/ WritePosterior
    \/ Return

Spec == Init /\ [][Next]_vars

(***************************************************************************)
(* operator() as a function of its inputs, for a policy and a model that   *)
(* no earlier call has touched: the sensor loop in the order 0, 1, ...     *)
(***************************************************************************)
\* The centred state points, c_xx_inv and the centred observation points
\* of sensor k.
CentredX(q, prior, noise) == CenterPoints(TransformX(q, prior, noise))

StateCovInverse(pX) == Inverse(cov(pX, pX.points, pX.points))

SensorPoints(model, pX, pQ, k) == PropagatePoints(SetId(model, k), pX, pQ)

\* The accumulators after the iterations for sensors 0 .. k-1.
RECURSIVE SequentialAcc(_, _, _, _, _)
SequentialAcc(model, pX, pQ, meas, k) ==
    IF k = 0
    THEN [C |-> InitInformation(StateCovInverse(pX)),
          D |-> ZeroMat(Rows(pX.points), 1)]
    ELSE LET prev == SequentialAcc(model, pX, pQ, meas, k - 1)
             cinv == StateCovInverse(pX)
             raw  == SensorPoints(model, pX, pQ, k - 1)
             mu_y == PointMean(raw)
             pY   == CenterPoints(raw)
             A_i  == RegressionA(pX, pY, cinv)
             T    == GainT(A_i, InnovationCov(pX, pY, cinv))
         IN  [C |-> AccumulateC(prev.C, T, A_i),
              D |-> AccumulateD(prev.D, T,
                                MeasurementSlice(meas, k - 1, Rows(mu_y)), mu_y)]

SequentialPosterior(q, prior, noise, model, N, meas) ==
    LET pX  == CentredX(q, prior, noise)
        pQ  == TransformQ(q, prior, noise)
        acc == SequentialAcc(model, pX, pQ, meas, N)
        cv  == PosteriorCovariance(acc.C)
    IN  Gaussian(PosteriorMean(PointMean(TransformX(q, prior, noise)), cv, acc.D), cv)

(***************************************************************************)
(* The sensor loop run in an arbitrary order of the sensor indices.        *)
(***************************************************************************)
PermutedStep ==
    /\ pc = "loop"
    /\ i < sensors
    /\ \E k \in (0..(sensors - 1)) \ visited : SensorIteration(k)
    /\ i' = i + 1
    /\ UNCHANGED adapter
    /\ UNCHANGED <<quadrature, p_X, p_Q, noise_distr_, args, mu_x, c_xx_inv,
                   sensors, pc, tasks, obsrv_at_call, belief_at_call>>

NextPerm ==
    \/ Call
    \/ TransformToPoints
    \/ CenterState
    \/ PermutedStep
    \/ WritePosterior

SpecPerm == Init /\ [][NextPerm]_vars

(***************************************************************************)
(* The iterations of the sensor loop run as concurrent tasks, one per      *)
(* sensor, each executing the statements of the loop body in order; the    *)
(* additions to C and D are the only synchronised steps.                   *)
(***************************************************************************)
Fork ==
    /\ pc = "loop"
    /\ i = 0
    /\ tpc' = [k \in 0..(sensors - 1) |-> "id"]
    /\ tmu' = [k \in 0..(sensors - 1) |-> None]
    /\ pc' = "par"
    /\ UNCHANGED adapter
    /\ UNCHANGED <<obsrv_function, quadrature, members, args, locals, visited, history>>

\* line 143
TaskSetId(k) ==
    /\ pc = "par" /\ tpc[k] = "id"
    /\ obsrv_function' = [obsrv_function EXCEPT !.model = SetId(@, k)]
    /\ tpc' = [tpc EXCEPT ![k] = "propagate"]
    /\ UNCHANGED adapter
    /\ UNCHANGED <<quadrature, members, args, locals, pc, visited, tmu,
                   history>>

\* line 144
TaskPropagate(k) ==
    /\ pc = "par" /\ tpc[k] = "propagate"
    /\ p_Y' = PropagatePoints(obsrv_function.model, p_X, p_Q)
    /\ steps' = [steps EXCEPT !.propagate[k] = @ + 1]
    /\ tpc' = [tpc EXCEPT ![k] = "center"]
    /\ UNCHANGED adapter
    /\ UNCHANGED <<obsrv_function, quadrature, p_X, p_Q, noise_distr_, args,
                   locals, pc, visited, tmu, obsrv_at_call, belief_at_call>>

\* line 146
TaskCenter(k) ==
    /\ pc = "par" /\ tpc[k] = "center"
    /\ tmu' = [tmu EXCEPT ![k] = PointMean(p_Y)]
    /\ p_Y' = CenterPoints(p_Y)
    /\ tpc' = [tpc EXCEPT ![k] = "accumulate"]
    /\ UNCHANGED adapter
    /\ UNCHANGED <<obsrv_function, quadrature, p_X, p_Q, noise_distr_, args,
                   locals, pc, visited, history>>

\* lines 147-156
TaskAccumulate(k) ==
    /\ pc = "par" /\ tpc[k] = "accumulate"
    /\ LET A_i == RegressionA(p_X, p_Y, c_xx_inv)
           T   == GainT(A_i, InnovationCov(p_X, p_Y, c_xx_inv))
       IN  /\ C' = AccumulateC(C, T, A_i)
           /\ D' = AccumulateD(D, T, MeasurementSlice(y, k, Rows(tmu[k])), tmu[k])
    /\ visited' = visited \cup {k}
    /\ steps' = [steps EXCEPT !.accumulate[k] = @ + 1,
                              !.rows[k] = @ \cup SliceRows(k, Rows(tmu[k]))]
    /\ tpc' = [tpc EXCEPT ![k] = "done"]
    /\ UNCHANGED adapter
    /\ UNCHANGED <<obsrv_function, quadrature, members, args, mu_x, c_xx_inv,
                   sensors, i, pc, tmu, obsrv_at_call, belief_at_call>>

Join ==
    /\ pc = "par"
    /\ \A k \in DOMAIN tpc : tpc[k] = "done"
    /\ i' = sensors
    /\ pc' = "loop"
    /\ UNCHANGED adapter
    /\ UNCHANGED <<obsrv_function, quadrature, members, args, mu_x, c_xx_inv,
                   C, D, sensors, visited, tasks, history>>

Task == \E k \in 0..(sensors - 1) :
            TaskSetId(k) \/ TaskPropagate(k) \/ TaskCenter(k) \/ TaskAccumulate(k)

NextPar ==
    \/ Call
    \/ TransformToPoints
    \/ CenterState
    \/ Fork
    \/ Task
    \/ Join
    \/ WritePosterior

SpecPar == Init /\ [][NextPar]_vars

(***************************************************************************)
(* FactorizedIIDObservationModel: the adapter that presents N copies of a  *)
(* local observation model as one joint model.  The local model is linear, *)
(* y = H * x + G * w, with H of size dy x dx and G of size dy x dw.         *)
(***************************************************************************)
LocalObservationDimension(local) == Rows(local.H)

LocalStateDimension(local) == Cols(local.H)

LocalNoiseDimension(local) == Cols(local.G)

LocalPredict(local, x, w) == MatAdd(MatMul(local.H, x), MatMul(local.G, w))

\* A size_t is [wrap, k], standing for wrap * 2^64 + k with wrap in {0, 1}:
\* k >= 0 when wrap = 0 and k < 0 when wrap = 1.
\* The conversion of an int to size_t.
SizeT(k) == [wrap |-> IF k < 0 THEN 1 ELSE 0, k |-> k]

\* The product of a size_t by a dimension (a small int >= 0), modulo 2^64.
SizeMul(dim, sz) == SizeT(dim * sz.k)

\* a < b on size_t.
SizeLess(a, b) == a.wrap < b.wrap \/ (a.wrap = b.wrap /\ a.k < b.k)

\* lines 143-156
observation_dimension ==
    SizeMul(LocalObservationDimension(factor_obsrv_model_), factors_)

state_dimension == SizeMul(LocalStateDimension(factor_obsrv_model_), factors_)

noise_dimension == SizeMul(LocalNoiseDimension(factor_obsrv_model_), factors_)

\* M with the n rows after row start replaced by the rows of V.
SetMiddleRows(M, start, n, V) ==
    SeqOf(LAMBDA k : IF k > start /\ k <= start + n THEN V[k - start] ELSE M[k],
          Rows(M))

\* Mutant of FactorSlice: every sensor reads the rows of sensor 0.
FactorSliceFirst(v, k, dim) == MiddleRows(v, 0, dim)

\* lines 135-136: the rows of a joint vector that belong to sensor k.
FactorSlice(v, k, dim) == MiddleRows(v, k * dim, dim)

\* Input domains of the adapter.
LocalModels ==
    { [H |-> <<  <<R(1)>>  >>, G |-> <<  <<R(1)>>  >>],
      [H |-> <<  <<R(1), R(2)>>  >>, G |-> <<  <<R(1)>>  >>],
      [H |-> << <<R(1)>>, <<R(2)>> >>, G |-> << <<R(1), R(0)>>, <<R(0), R(1)>> >>] }

FactorCounts == (-1)..MaxSensors

JointVectors(n, scales) == { ColVec(SeqOf(LAMBDA k : R(s * k), n)) : s \in scales }

\* lines 112-117: the constructor stores the local model and converts the
\* int factors to the size_t member; nothing is checked.
Construct ==
    /\ apc = "unconstructed"
    /\ \E local \in LocalModels, factors \in FactorCounts :
         /\ factor_obsrv_model_' = local
         /\ factors_' = SizeT(factors)
         /\ factors_arg' = factors
    /\ apc' = "ready"
    /\ UNCHANGED <<a_state, a_noise, a_y, a_i, a_writes>>
    /\ UNCHANGED policy

\* lines 121-131: predict_observation is entered with a joint state and a
\* joint noise of the adapter's dimensions; y is zero-initialised and the
\* loop starts at i = 0.  A wrapped observation_dimension() cannot be
\* allocated: the call ends without a result.
PredictEnter ==
    /\ apc = "ready"
    /\ IF observation_dimension.wrap = 0
       THEN /\ \E x \in JointVectors(state_dimension.k, {1, 2}),
                  w \in JointVectors(noise_dimension.k, {0, 1, 3}) :
                    a_state' = x /\ a_noise' = w
            /\ a_y' = ZeroMat(observation_dimension.k, 1)
            /\ a_writes' = SeqOf(LAMBDA k : 0, observation_dimension.k)
            /\ a_i' = 0
            /\ apc' = "loop"
       ELSE /\ apc' = "failed"
            /\ UNCHANGED <<a_state, a_noise, a_y, a_i, a_writes>>
    /\ UNCHANGED <<factor_obsrv_model_, factors_, factors_arg>>
    /\ UNCHANGED policy

\* lines 131-138: one iteration of for (int i = 0; i < factors_; ++i).
PredictFactor ==
    /\ apc = "loop"
    /\ SizeLess(SizeT(a_i), factors_)
    /\ LET obsrv_dim == LocalObservationDimension(factor_obsrv_model_)
           noise_dim == LocalNoiseDimension(factor_obsrv_model_)
           state_dim == LocalStateDimension(factor_obsrv_model_)
       IN  /\ a_y' = SetMiddleRows(a_y, a_i * obsrv_dim, obsrv_dim,
                        LocalPredict(factor_obsrv_model_,
                                     FactorSlice(a_state, a_i, state_dim),
                                     FactorSlice(a_noise, a_i, noise_dim)))
           /\ a_writes' = SeqOf(LAMBDA k : IF k > a_i * obsrv_dim
                                              /\ k <= (a_i + 1) * obsrv_dim
                                           THEN a_writes[k] + 1 ELSE a_writes[k],
                                Len(a_writes))
    /\ a_i' = a_i + 1
    /\ UNCHANGED <<factor_obsrv_model_, factors_, factors_arg, apc, a_state, a_noise>>
    /\ UNCHANGED policy

\* line 140: the loop is over and y is returned.
PredictReturn ==
    /\ apc = "loop"
    /\ ~SizeLess(SizeT(a_i), factors_)
    /\ apc' = "returned"
    /\ UNCHANGED <<factor_obsrv_model_, factors_, factors_arg, a_state, a_noise,
                   a_y, a_i, a_writes>>
    /\ UNCHANGED policy

\* The caller has taken the result; the adapter is ready for the next call.
PredictDone ==
    /\ apc = "returned"
    /\ apc' = "ready"
    /\ a_state' = None /\ a_noise' = None /\ a_y' = None
    /\ a_i' = 0
    /\ a_writes' = None
    /\ UNCHANGED <<factor_obsrv_model_, factors_, factors_arg>>
    /\ UNCHANGED policy

NextAdapter ==
    \/ Construct
    \/ PredictEnter
    \/ PredictFactor
    \/ PredictReturn
    \/ PredictDone

\* The adapter on its own, beside one idle policy.
InitAdapter ==
    /\ Init
    /\ obsrv_function.count = 1
    /\ StateDim = 1
    /\ obsrv_function.model.H[1] = <<One>>
    /\ obsrv_function.model.curv = 0
    /\ obsrv_function.model.r = 1
    /\ quadrature.gamma = R(2)

SpecAdapter == InitAdapter /\ [][NextAdapter]_vars

(***************************************************************************)
(* Claims.                                                                 *)
(***************************************************************************)
Model == obsrv_function.model

SensorIds == 0..(obsrv_function.count - 1)

\* The concrete scenario: scalar state, every sensor the identity
\* observation y_i = x + w_i with noise variance R = r^2 > 0, and all
\* measurements equal.
IdentityScenario ==
    /\ StateDim = 1
    /\ Model.curv = 0
    /\ Model.r > 0
    /\ \A k \in 1..obsrv_function.count : Model.H[k] = <<One>>
    /\ \A k \in 1..Len(y) : y[k] = y[1]

\* Closed-form Kalman posterior of the concrete scenario.
ClosedFormVariance ==
    LET P0 == prior_belief.covariance[1][1]
        Rv == R(Model.r * Model.r)
    IN  RInv(RAdd(RInv(P0), RMul(R(obsrv_function.count), RInv(Rv))))

ClosedFormMean ==
    LET P0 == prior_belief.covariance[1][1]
        x0 == prior_belief.mean[1][1]
        Rv == R(Model.r * Model.r)
    IN  RMul(ClosedFormVariance,
             RAdd(RMul(x0, RInv(P0)),
                  RMul(RMul(R(obsrv_function.count), y[1][1]), RInv(Rv))))

\* C1: in the concrete scenario (scalar state, N identical identity sensors
\* with noise variance R, all measurements equal to y) the finished update
\* has written posterior variance 1/(1/P0 + N/R) and posterior mean
\* P_post*(x0/P0 + N*y/R), for every x0, P0, R, N and y.
C1_ClosedFormPosterior ==
    (pc = "done" /\ IdentityScenario) =>
        /\ posterior_belief.covariance = <<  <<ClosedFormVariance>>  >>
        /\ posterior_belief.mean = <<  <<ClosedFormMean>>  >>

\* The innovation covariance c_yy - c_yx*c_xx_inv*c_xy of sensor k, from the
\* centred state points the call holds in p_X.
SensorInnovation(k) ==
    InnovationCov(p_X, CenterPoints(SensorPoints(Model, p_X, p_Q, k)), c_xx_inv)

Singular(M) == Det(M) = Zero

SomeInnovationSingular == \E k \in SensorIds : Singular(SensorInnovation(k))

\* C2: when the state covariance or a sensor's innovation covariance is not
\* invertible the call fails before anything is written: the output belief
\* still holds the mean and the covariance it held when the call started.
C2_FailureLeavesBeliefUntouched ==
    (pc = "done" /\ SomeInnovationSingular) => posterior_belief = belief_at_call

\* C3: constructing the adapter with a sensor count N <= 0 fails: every
\* adapter that exists, and so every adapter a dimension or a prediction is
\* asked of, was constructed with N >= 1.
C3_NonPositiveCountRejected ==
    (apc # "unconstructed") => factors_arg >= 1

\* C4: the update writes no field of the observation model: from the start
\* of a call to its end the model equals the model the call was given.
C4_ModelNotWritten ==
    (pc \in {"loop", "done"}) => obsrv_function = obsrv_at_call

\* The accumulators of the sequential loop over all sensors, from the inputs
\* of the running call.
SequentialResult ==
    SequentialAcc(Model, CentredX(quadrature, prior_belief, noise_distr_),
                  TransformQ(quadrature, prior_belief, noise_distr_),
                  y, obsrv_function.count)

\* C5: when the loop iterations run as concurrent tasks, in every
\* interleaving the accumulators C and D end up equal to those of the
\* sequential loop (each task adds the contribution of its own sensor only).
C5_ConcurrentEqualsSequential ==
    (pc = "done") => (C = SequentialResult.C /\ D = SequentialResult.D)

\* The posterior a first call with the inputs of the running call computes
\* with the loop in the order 0, 1, ..., N-1.
ReferencePosterior ==
    SequentialPosterior(quadrature, prior_belief, noise_distr_,
                        [Model EXCEPT !.id = 0], obsrv_function.count, y)

\* C6: permutation invariance: whatever the order in which the loop visits
\* the sensors (each with its own measurement slice), the posterior written
\* equals the posterior of the order 0, 1, ..., N-1.
C6_PermutationInvariance ==
    (pc = "done" /\ visited = SensorIds) => posterior_belief = ReferencePosterior

\* A call that has finished after visiting the sensors out of order.
C6_Witness ==
    /\ pc = "done"
    /\ obsrv_function.count >= 2
    /\ Model.id # obsrv_function.count - 1
    /\ y[1] # y[2]
    /\ Model.H[1] # Model.H[2]
    /\ MatFinite(posterior_belief.covariance)

\* The standard single-sensor sigma-point update: the observation points are
\* the images of the (uncentred) state sigma points, and the posterior is
\* c_xx - c_xy*inverse(c_yy)*c_yx, mean_x + c_xy*inverse(c_yy)*(y - mean_y).
StandardUpdate(q, prior, noise, model, meas) ==
    LET rawX == TransformX(q, prior, noise)
        pQ   == TransformQ(q, prior, noise)
        rawY == PropagatePoints(model, rawX, pQ)
        pX   == CenterPoints(rawX)
        pY   == CenterPoints(rawY)
        c_xx == cov(pX, pX.points, pX.points)
        c_xy == cov(pX, pX.points, pY.points)
        c_yy == cov(pX, pY.points, pY.points)
        K    == MatMul(c_xy, Inverse(c_yy))
    IN  Gaussian(MatAdd(PointMean(rawX), MatMul(K, MatSub(meas, PointMean(rawY)))),
                 MatSub(c_xx, MatMul(K, Transpose(c_xy))))

\* C7: single-sensor equivalence: with N = 1 the posterior written equals
\* the posterior of the standard single-sensor sigma-point update (stated
\* here for the calls in which the innovation covariance is invertible).
C7_SingleSensorEquivalence ==
    (pc = "done" /\ obsrv_function.count = 1 /\ ~SomeInnovationSingular) =>
        posterior_belief =
            StandardUpdate(quadrature, prior_belief, noise_distr_, SetId(Model, 0), y)

\* One iteration of the sensor loop is being taken, for sensor i.
LoopIteration == pc = "loop" /\ i' = i + 1

\* C8 as claimed: every loop iteration leaves a posterior covariance
\* inverse(C) that is <= (Loewner order) the one before it, whatever the
\* covariance weights (stated for iterations with an invertible innovation
\* covariance).
C8_MonotoneForAnyWeights ==
    [][(LoopIteration /\ ~Singular(SensorInnovation(i))) =>
          LoewnerLe(PosteriorCovariance(C'), PosteriorCovariance(C))]_vars

\* C8 amended: when the innovation covariances of sensors 0..i are positive
\* definite, the iteration for sensor i does not decrease C and does not
\* increase the posterior covariance inverse(C) (Loewner order).
C8_MonotoneWhenInnovationPositive ==
    [][(LoopIteration /\ \A k \in 0..i : IsPosDef(SensorInnovation(k))) =>
          /\ LoewnerLe(C, C')
          /\ LoewnerLe(PosteriorCovariance(C'), PosteriorCovariance(C))]_vars

\* A second sensor has been fused, with a negative centre weight, a
\* nonlinear observation and positive-definite innovation covariances.
C8_Witness ==
    /\ pc = "loop" /\ i = 2
    /\ RLt(p_X.wc[1], Zero) /\ Model.curv = 1
    /\ \A k \in 0..1 : IsPosDef(SensorInnovation(k))
    /\ C # c_xx_inv

\* C9 as claimed: a positive-definite prior covariance and non-singular
\* innovation covariances give a symmetric positive-definite posterior
\* covariance.
C9_SPDWhenNonSingular ==
    (/\ pc = "done"
     /\ IsPosDef(prior_belief.covariance)
     /\ \A k \in SensorIds : MatFinite(SensorInnovation(k)) /\ ~Singular(SensorInnovation(k)))
        => IsPosDef(posterior_belief.covariance)

\* C9 amended: a positive-definite prior covariance and positive-definite
\* innovation covariances give a symmetric positive-definite posterior
\* covariance.
C9_SPDWhenInnovationPositive ==
    (/\ pc = "done"
     /\ IsPosDef(prior_belief.covariance)
     /\ \A k \in SensorIds : IsPosDef(SensorInnovation(k)))
        => IsPosDef(posterior_belief.covariance)

\* A finished update of a two-dimensional state by two sensors with
\* positive-definite innovation covariances and a correlated posterior.
C9_Witness ==
    /\ pc = "done"
    /\ StateDim = 2 /\ obsrv_function.count = 2
    /\ \A k \in SensorIds : IsPosDef(SensorInnovation(k))
    /\ IsPosDef(posterior_belief.covariance)
    /\ posterior_belief.covariance[1][2] # Zero

\* C10: the update is stateless across calls: whatever calls came before on
\* the same policy and model, a finished call has written the posterior a
\* first call with the same inputs writes.
C10_StatelessAcrossCalls ==
    (pc = "done" /\ i = sensors) => posterior_belief = ReferencePosterior

\* A later call has finished on a policy whose members and whose model id
\* were left behind by an earlier call.
C10_Witness ==
    /\ pc = "done"
    /\ obsrv_function.count >= 2
    /\ obsrv_at_call.model.id # 0
    /\ Model.H[1] # Model.H[2]
    /\ MatFinite(posterior_belief.covariance)

(***************************************************************************)
(* The adapter's aggregate view.                                           *)
(***************************************************************************)
\* The sensor count N the adapter was constructed with and the local
\* dimensions dy, dx, dw.
AdapterN == factors_arg

AdapterDy == Rows(factor_obsrv_model_.H)

AdapterDx == Cols(factor_obsrv_model_.H)

AdapterDw == Cols(factor_obsrv_model_.G)

\* The three dimension getters return N*dy, N*dx and N*dw.
DimensionsAreProducts ==
    /\ observation_dimension = [wrap |-> 0, k |-> AdapterN * AdapterDy]
    /\ state_dimension = [wrap |-> 0, k |-> AdapterN * AdapterDx]
    /\ noise_dimension = [wrap |-> 0, k |-> AdapterN * AdapterDw]

\* Rows [i*dy, (i+1)*dy) of the returned y are the local prediction on rows
\* [i*dx, (i+1)*dx) of the state and rows [i*dw, (i+1)*dw) of the noise.
FactorRowsPredicted(f) ==
    LET x == [r \in 1..AdapterDx |-> a_state[f * AdapterDx + r]]
        w == [r \in 1..AdapterDw |-> a_noise[f * AdapterDw + r]]
        z == LocalPredict(factor_obsrv_model_, x, w)
    IN  \A r \in 1..AdapterDy : a_y[f * AdapterDy + r] = z[r]

\* C11: for an adapter with N sensors the dimension getters return N*dy,
\* N*dx and N*dw, and the vector predict_observation returns has N*dy rows,
\* the rows of each sensor i being the local prediction on the i-th slices
\* of state and noise, every row written by exactly one sensor.
C11_AggregateView ==
    /\ (apc \in {"ready", "loop", "returned"} /\ AdapterN >= 0)
          => DimensionsAreProducts
    /\ (apc = "returned") =>
          /\ Len(a_y) = AdapterN * AdapterDy
          /\ \A f \in 0..(AdapterN - 1) : FactorRowsPredicted(f)
          /\ \A r \in 1..Len(a_y) : a_writes[r] = 1

\* A prediction has returned for two sensors with two observation rows each,
\* from slices that differ between the sensors.
C11_Witness ==
    /\ apc = "returned"
    /\ AdapterN = 2 /\ AdapterDy = 2
    /\ a_state[1] # a_state[2]
    /\ a_noise[1] # a_noise[3]
    /\ a_y[1] # a_y[3]

(***************************************************************************)
(* Order and multiplicity of the steps of one call.                        *)
(***************************************************************************)
\* Rows of the joint measurement per sensor.
LocalObsrvDim == Len(y) \div obsrv_function.count

\* Sensor k has been propagated and accumulated exactly once, from its own
\* rows of y; or not at all.
SensorDone(k) ==
    /\ steps.propagate[k] = 1
    /\ steps.accumulate[k] = 1
    /\ steps.rows[k] = (k * LocalObsrvDim + 1)..((k + 1) * LocalObsrvDim)

SensorPending(k) ==
    /\ steps.propagate[k] = 0
    /\ steps.accumulate[k] = 0
    /\ steps.rows[k] = {}

\* C12: in one call the transform runs exactly once, before the loop; the
\* loop starts from C = inverse(c_xx), D = 0; the sensors 0..N-1 are
\* propagated and accumulated exactly once each, in this order, each from
\* its own rows of y (the slices disjoint and covering y); C is inverted
\* exactly once, after all sensors, and the belief written is inverse(C)
\* and mean_x + inverse(C) * D.
C12_StepOrder ==
    /\ (pc = "transform") => steps = NoSteps(obsrv_function.count)
    /\ (pc \in {"center", "loop", "done"}) => steps.transform = 1
    /\ (pc = "center") => (steps.inverted = 0 /\ \A k \in SensorIds : SensorPending(k))
    /\ (pc = "loop" /\ i = 0) =>
          /\ C = Inverse(cov(p_X, p_X.points, p_X.points))
          /\ D = ZeroMat(StateDim, 1)
    /\ (pc = "loop") =>
          /\ steps.inverted = 0
          /\ \A k \in SensorIds : IF k < i THEN SensorDone(k) ELSE SensorPending(k)
    /\ (pc = "done") =>
          /\ \A k \in SensorIds : SensorDone(k)
          /\ \A k, l \in SensorIds : k # l => steps.rows[k] \cap steps.rows[l] = {}
          /\ UNION { steps.rows[k] : k \in SensorIds } = 1..Len(y)
          /\ steps.inverted = 1
          /\ posterior_belief.covariance = Inverse(C)
          /\ posterior_belief.mean =
                MatAdd(mu_x, MatMul(posterior_belief.covariance, D))

\* A call on two sensors with different measurements has finished with a
\* finite posterior and a prior mean that is not zero.
C12_Witness ==
    /\ pc = "done"
    /\ obsrv_function.count = 2
    /\ y[1] # y[2]
    /\ mu_x[1][1] # Zero
    /\ D[1][1] # Zero
    /\ MatFinite(posterior_belief.covariance)
    /\ steps.rows[1] = {2}

====
